---- MODULE Spec2Model ----
(***************************************************************************)
(* A model of the AgentPress core of suna: the inline (XML) tool-call      *)
(* parser (xml-tool-parser), the schema decorators of the Tool base class, *)
(* the ToolRegistry, the DBConnection singleton and the agent routes of    *)
(* the backend.                                                            *)
(*                                                                         *)
(* Text is a sequence of tokens.  A token is either one character (a       *)
(* one-character string) or one complete tag of the inline grammar, which  *)
(* the regular expressions of the parser match as a unit.                  *)
(***************************************************************************)
EXTENDS Integers, Sequences, FiniteSets, TLC

VARIABLES
    text,        \* parser input: the agent text built so far
    chunks,      \* number of chunks the text was built from
    pc,          \* "emit" while the text is produced, then "parsed" or "extracted"
    result,      \* what the last parseToolCalls / extractToolNames call returned
    lastIndex,   \* lastIndex of the three static global-flag regular expressions
    calls,       \* log of parser calls: <<operation, text, returned value>>
    raw,         \* raw content of one parameter block
    coerced,     \* the value parseInvokeBlock stores for it
    cpc,         \* "raw" before, "done" after the parameter was coerced
    payload,     \* a JavaScript value handed to validateToolCall / Tool.success / Tool.error
    outcome,     \* the call made with it and what it returned
    classBody,   \* per tool class, the decorators its definition applies, in order
    loaded,      \* the tool classes whose definition has run
    toolSchemas, \* Tool._schemas, the static property the decorators write to
    tools,       \* ToolRegistry.tools
    xmlTools,    \* ToolRegistry.xmlTools
    nextInstance,\* identity of the next tool instance a constructor creates
    regLast,     \* the registry call made last
    regCount,    \* per tool class, how often it was registered (counted up to 2)
    agentRuns,   \* the rows of table agent_runs
    requests,    \* per request to POST /agent/run: where its handler stands
    dbInstance,  \* DBConnection.instance (0 for null)
    dbInitialized, \* DBConnection.initialized
    dbClient,    \* per DBConnection object, whether its client is set
    dbHandles,   \* number of DBConnection objects constructed so far
    dbLast       \* the DBConnection call made last

vars == <<text, chunks, pc, result, lastIndex, calls, raw, coerced, cpc, payload, outcome,
          classBody, loaded, toolSchemas, tools, xmlTools, nextInstance, regLast,
          regCount, agentRuns, requests, dbInstance, dbInitialized, dbClient, dbHandles,
          dbLast>>

parserVars == <<text, chunks, pc, result>>
pureVars == <<lastIndex, calls>>
coerceVars == <<raw, coerced, cpc, payload, outcome>>
routeVars == <<agentRuns, requests>>
dbVars == <<dbInstance, dbInitialized, dbClient, dbHandles, dbLast>>
serviceVars == <<routeVars, dbVars>>
registryVars ==
    <<classBody, loaded, toolSchemas, tools, xmlTools, nextInstance, regLast, regCount>>

(***************************************************************************)
(* Bounds of the model.                                                    *)
(***************************************************************************)
MaxChunks == 5
MaxRawLen == 3
MaxCalls == 3
MaxRegistrations == 3

(***************************************************************************)
(* Tokens.                                                                 *)
(***************************************************************************)
ToolNames == {"a", "b"}
ParamNames == {"p", "q"}

FO == "<function_calls>"
FC == "</function_calls>"
IC == "</invoke>"
PC == "</parameter>"
InvokeOpenTag(n) == "<invoke name=\"" \o n \o "\">"
ParamOpenTag(n) == "<parameter name=\"" \o n \o "\">"

InvokeOpens == {InvokeOpenTag(n) : n \in ToolNames}
ParamOpens == {ParamOpenTag(n) : n \in ParamNames}
Tags == {FO, FC, IC, PC} \cup InvokeOpens \cup ParamOpens

\* what String.prototype.trim and \s treat as white space
WS == {" ", "\n"}

\* obj[k] = v on a JavaScript object, kept as the sequence of its own properties
\* in insertion order: an existing key keeps its place and takes the new value
ObjSet(obj, k, v) ==
    IF \E n \in 1..Len(obj) : obj[n].key = k
    THEN [n \in 1..Len(obj) |-> IF obj[n].key = k THEN [key |-> k, val |-> v] ELSE obj[n]]
    ELSE Append(obj, [key |-> k, val |-> v])

\* a variant that leaves an existing property alone
ObjSetIfAbsent(obj, k, v) ==
    IF \E n \in 1..Len(obj) : obj[n].key = k THEN obj
    ELSE Append(obj, [key |-> k, val |-> v])

\* k in obj, obj[k] and Object.keys(obj)
ObjHas(obj, k) == \E n \in 1..Len(obj) : obj[n].key = k
ObjGet(obj, k) == obj[CHOOSE n \in 1..Len(obj) : obj[n].key = k].val
ObjKeys(obj) == [n \in 1..Len(obj) |-> obj[n].key]

Min(S) == CHOOSE x \in S : \A y \in S : x <= y
Max(S) == CHOOSE x \in S : \A y \in S : x >= y

(***************************************************************************)
(* The three patterns  <open>(.*?)<close>  with flags g and s.             *)
(***************************************************************************)
IsOpen(kind, t) ==
    CASE kind = "function_calls" -> t = FO
      [] kind = "invoke" -> t \in InvokeOpens
      [] kind = "parameter" -> t \in ParamOpens

IsClose(kind, t) ==
    CASE kind = "function_calls" -> t = FC
      [] kind = "invoke" -> t = IC
      [] kind = "parameter" -> t = PC

\* capture group 1 of INVOKE_PATTERN / PARAMETER_PATTERN: the name attribute
NameOf(kind, t) ==
    IF kind = "invoke"
    THEN CHOOSE n \in ToolNames : InvokeOpenTag(n) = t
    ELSE CHOOSE n \in ParamNames : ParamOpenTag(n) = t

\* position of the first opening tag at or after position i, 0 if none
FirstOpen(kind, s, i) ==
    LET c == {j \in i..Len(s) : IsOpen(kind, s[j])}
    IN IF c = {} THEN 0 ELSE Min(c)

\* the greedy group (.*) would run to the last closing tag
FirstCloseGreedy(kind, s, i) ==
    LET c == {j \in i..Len(s) : IsClose(kind, s[j])}
    IN IF c = {} THEN 0 ELSE Max(c)

\* (.*?) is lazy: the match ends at the first closing tag after the opening tag
FirstClose(kind, s, i) ==
    LET c == {j \in i..Len(s) : IsClose(kind, s[j])}
    IN IF c = {} THEN 0 ELSE Min(c)

\* all matches, leftmost first, searching from position i (1-based)
RECURSIVE MatchAllFrom(_, _, _)
MatchAllFrom(kind, s, i) ==
    LET Closed(o, c) ==
            IF c = 0 THEN << >>
            ELSE <<[open |-> o, close |-> c]>> \o MatchAllFrom(kind, s, c + 1)
        Opened(o) == IF o = 0 THEN << >> ELSE Closed(o, FirstClose(kind, s, o + 1))
    IN Opened(FirstOpen(kind, s, i))

\* String.prototype.matchAll(re): the matcher is a clone of re that starts at
\* re.lastIndex (an offset, 0-based)
MatchAll(kind, s, li) == MatchAllFrom(kind, s, li + 1)

\* m[0], the whole match, and the lazy group (.*?)
Whole(s, m) == SubSeq(s, m.open, m.close)
Content(s, m) == SubSeq(s, m.open + 1, m.close - 1)

\* text.replace(re, ''): re.lastIndex is reset to 0 first, every match is removed
RECURSIVE RemoveFrom(_, _, _)
RemoveFrom(kind, s, i) ==
    LET Closed(o, c) ==
            IF c = 0 THEN SubSeq(s, i, Len(s))
            ELSE SubSeq(s, i, o - 1) \o RemoveFrom(kind, s, c + 1)
        Opened(o) ==
            IF o = 0 THEN SubSeq(s, i, Len(s)) ELSE Closed(o, FirstClose(kind, s, o + 1))
    IN Opened(FirstOpen(kind, s, i))

ReplaceAll(kind, s) == RemoveFrom(kind, s, 1)

\* String.prototype.trim
Trim(s) ==
    LET keep == {j \in 1..Len(s) : s[j] \notin WS}
    IN IF keep = {} THEN << >> ELSE SubSeq(s, Min(keep), Max(keep))

(***************************************************************************)
(* JavaScript values.  Every value is a record [type, repr]: repr is the   *)
(* character sequence String(v) / JSON.stringify(v) would give, so that    *)
(* 42, 42.0 and +42 are one number and "42" is a different (string) value. *)
(***************************************************************************)
Digits == {"0", "1", "2", "3", "4", "5", "6", "7", "8", "9"}

Chars(str) ==
    CASE str = "true" -> <<"t", "r", "u", "e">>
      [] str = "false" -> <<"f", "a", "l", "s", "e">>
      [] str = "null" -> <<"n", "u", "l", "l">>
      [] str = "Infinity" -> <<"I", "n", "f", "i", "n", "i", "t", "y">>

JSString(cs) == [type |-> "string", repr |-> cs]
JSNumber(cs) == [type |-> "number", repr |-> cs]
JSBool(b) == [type |-> "boolean", repr |-> IF b THEN Chars("true") ELSE Chars("false")]
JSNull == [type |-> "null", repr |-> Chars("null")]
JSArray(cs) == [type |-> "array", repr |-> cs]
JSObject(cs) == [type |-> "object", repr |-> cs]

\* JSON.stringify of a value nested in an array or object
Nested(v) ==
    IF v.type = "string" THEN <<"\"">> \o v.repr \o <<"\"">> ELSE v.repr

\* first position at or after i that holds no white space (Len(s) + 1 if none)
SkipWS(s, i) ==
    LET c == {j \in i..Len(s) : s[j] \notin WS}
    IN IF c = {} THEN Len(s) + 1 ELSE Min(c)

\* last position of the run of digits that starts at j (j - 1 if there is none)
DigitRunEnd(s, j) ==
    LET c == {k \in j..Len(s) : s[k] \notin Digits}
    IN IF c = {} THEN Len(s) ELSE Min(c) - 1

StripLeadingZeros(ds) ==
    LET c == {k \in 1..Len(ds) : ds[k] # "0"}
    IN IF c = {} THEN <<"0">> ELSE SubSeq(ds, Min(c), Len(ds))

StripTrailingZeros(ds) ==
    LET c == {k \in 1..Len(ds) : ds[k] # "0"}
    IN IF c = {} THEN << >> ELSE SubSeq(ds, 1, Max(c))

\* the number with the given sign, integer digits and fraction digits
NumberOf(neg, intDigits, fracDigits) ==
    LET ip == StripLeadingZeros(intDigits)
        fp == StripTrailingZeros(fracDigits)
    IN IF ip = <<"0">> /\ fp = << >>
       THEN JSNumber(<<"0">>)
       ELSE JSNumber((IF neg THEN <<"-">> ELSE << >>) \o ip
                     \o (IF fp = << >> THEN << >> ELSE <<".">> \o fp))

Fail == [ok |-> FALSE, val |-> JSNull, next |-> 0]
Ok(v, n) == [ok |-> TRUE, val |-> v, next |-> n]

At(s, i) == IF i >= 1 /\ i <= Len(s) THEN s[i] ELSE ""

\* JSON number:  -? (0 | [1-9][0-9]*) (. [0-9]+)?   (exponents are outside the
\* alphabet of the model)
JsonNumber(s, i) ==
    LET FracPart(neg, j, e, hasFrac, f) ==
            IF e < j \/ (hasFrac /\ f < e + 2)
            THEN Fail
            ELSE Ok(NumberOf(neg, SubSeq(s, j, e),
                             IF hasFrac THEN SubSeq(s, e + 2, f) ELSE << >>), f + 1)
        IntPart(neg, j, e) ==
            FracPart(neg, j, e, At(s, e + 1) = ".",
                 IF At(s, e + 1) = "." THEN DigitRunEnd(s, e + 2) ELSE e)
        Signed(neg, j) == IntPart(neg, j, IF At(s, j) = "0" THEN j ELSE DigitRunEnd(s, j))
    IN Signed(At(s, i) = "-", IF At(s, i) = "-" THEN i + 1 ELSE i)

\* JSON string: no escapes (no backslash in the alphabet), no raw control character
JsonString(s, i) ==
    LET Quote(q) ==
            IF q = 0 \/ \E k \in (i + 1)..(q - 1) : s[k] \in {"\n", "\\"} \cup Tags
            THEN Fail
            ELSE Ok(JSString(SubSeq(s, i + 1, q - 1)), q + 1)
        First(c) == Quote(IF c = {} THEN 0 ELSE Min(c))
    IN First({k \in (i + 1)..Len(s) : s[k] = "\""})

JsonLiteral(s, i, word, v) ==
    IF SubSeq(s, i, i + Len(word) - 1) = word /\ i + Len(word) - 1 <= Len(s)
    THEN Ok(v, i + Len(word))
    ELSE Fail

RECURSIVE JoinMembers(_)
JoinMembers(ms) ==
    IF ms = << >> THEN << >>
    ELSE <<"\"">> \o ms[1].key \o <<"\"", ":">> \o Nested(ms[1].val)
         \o (IF Len(ms) = 1 THEN << >> ELSE <<",">> \o JoinMembers(Tail(ms)))

RECURSIVE JsonValue(_, _), JsonElements(_, _, _), JsonMembers(_, _, _)
\* the value that starts at position i (white space already skipped)
JsonValue(s, i) ==
    LET Open(c, j) ==
            CASE c = "\"" -> JsonString(s, i)
              [] c = "-" \/ c \in Digits -> JsonNumber(s, i)
              [] c = "t" -> JsonLiteral(s, i, Chars("true"), JSBool(TRUE))
              [] c = "f" -> JsonLiteral(s, i, Chars("false"), JSBool(FALSE))
              [] c = "n" -> JsonLiteral(s, i, Chars("null"), JSNull)
              [] c = "[" ->
                   IF At(s, j) = "]" THEN Ok(JSArray(<<"[", "]">>), j + 1)
                   ELSE JsonElements(s, j, <<"[">>)
              [] c = "{" ->
                   IF At(s, j) = "}" THEN Ok(JSObject(<<"{", "}">>), j + 1)
                   ELSE JsonMembers(s, j, << >>)
              [] OTHER -> Fail
    IN Open(At(s, i), SkipWS(s, i + 1))

\* elements of an array from position i on; acc is the text built so far
JsonElements(s, i, acc) ==
    LET After(v, j) ==
            IF At(s, j) = ","
            THEN JsonElements(s, SkipWS(s, j + 1), acc \o Nested(v.val) \o <<",">>)
            ELSE IF At(s, j) = "]"
                 THEN Ok(JSArray(acc \o Nested(v.val) \o <<"]">>), j + 1)
                 ELSE Fail
        Element(v) == IF ~v.ok THEN Fail ELSE After(v, SkipWS(s, v.next))
    IN Element(JsonValue(s, i))

\* members of an object from position i on; ms are the members read so far
JsonMembers(s, i, ms) ==
    LET After(ms2, j) ==
            IF At(s, j) = "," THEN JsonMembers(s, SkipWS(s, j + 1), ms2)
            ELSE IF At(s, j) = "}"
                 THEN Ok(JSObject(<<"{">> \o JoinMembers(ms2) \o <<"}">>), j + 1)
                 ELSE Fail
        Value(k, v) ==
            IF ~v.ok THEN Fail
            ELSE After(ObjSet(ms, k.val.repr, v.val), SkipWS(s, v.next))
        Colon(k, c) ==
            IF At(s, c) # ":" THEN Fail ELSE Value(k, JsonValue(s, SkipWS(s, c + 1)))
        Key(k) == IF ~k.ok THEN Fail ELSE Colon(k, SkipWS(s, k.next))
    IN Key(IF At(s, i) = "\"" THEN JsonString(s, i) ELSE Fail)

\* JSON.parse(value): ok = FALSE stands for the SyntaxError it throws
JSONParse(s) ==
    LET Complete(v) == IF v.ok /\ SkipWS(s, v.next) > Len(s) THEN v ELSE Fail
    IN Complete(JsonValue(s, SkipWS(s, 1)))

\* Number(value): the string is trimmed; the empty string is 0; an optional sign,
\* then Infinity or a decimal literal (digits, digits.digits, digits. or .digits);
\* anything else is NaN.  (Hex, binary, octal and exponent forms are outside the
\* alphabet of the model.)
ToNumber(s) ==
    LET Literal(t, neg, j, f, ip, fp) ==
            IF t = << >> THEN [kind |-> "finite", val |-> JSNumber(<<"0">>)]
            ELSE IF SubSeq(t, j, Len(t)) = Chars("Infinity")
                 THEN [kind |-> "infinite", val |-> JSNull]
            ELSE IF f = Len(t) /\ (ip # << >> \/ fp # << >>)
                 THEN [kind |-> "finite",
                       val |-> NumberOf(neg, IF ip = << >> THEN <<"0">> ELSE ip, fp)]
            ELSE [kind |-> "nan", val |-> JSNull]
        FracPart(t, neg, j, e, hasDot, f) ==
            Literal(t, neg, j, f, SubSeq(t, j, e),
                    IF hasDot THEN SubSeq(t, e + 2, f) ELSE << >>)
        IntPart(t, neg, j, e) ==
            FracPart(t, neg, j, e, At(t, e + 1) = ".",
                 IF At(t, e + 1) = "." THEN DigitRunEnd(t, e + 2) ELSE e)
        Signed(t, neg, j) == IntPart(t, neg, j, DigitRunEnd(t, j))
        Trimmed(t) == Signed(t, At(t, 1) = "-", IF At(t, 1) \in {"+", "-"} THEN 2 ELSE 1)
    IN Trimmed(Trim(s))

\* String.prototype.toLowerCase, one character
LowerChar(c) ==
    CASE c = "A" -> "a" [] c = "B" -> "b" [] c = "C" -> "c" [] c = "D" -> "d"
      [] c = "E" -> "e" [] c = "F" -> "f" [] c = "G" -> "g" [] c = "H" -> "h"
      [] c = "I" -> "i" [] c = "J" -> "j" [] c = "K" -> "k" [] c = "L" -> "l"
      [] c = "M" -> "m" [] c = "N" -> "n" [] c = "O" -> "o" [] c = "P" -> "p"
      [] c = "Q" -> "q" [] c = "R" -> "r" [] c = "S" -> "s" [] c = "T" -> "t"
      [] c = "U" -> "u" [] c = "V" -> "v" [] c = "W" -> "w" [] c = "X" -> "x"
      [] c = "Y" -> "y" [] c = "Z" -> "z" [] OTHER -> c

ToLowerCase(s) == [i \in 1..Len(s) |-> LowerChar(s[i])]

\* the catch branch of parseParameterValue: boolean, then number, then string
CoerceNonJSON(value) ==
    LET Pick(lower, numValue) ==
            IF lower = Chars("true") THEN JSBool(TRUE)
            ELSE IF lower = Chars("false") THEN JSBool(FALSE)
            ELSE IF numValue.kind = "finite" THEN numValue.val
            ELSE JSString(value)
    IN Pick(ToLowerCase(value), ToNumber(value))

\* XMLToolParser.parseParameterValue
parseParameterValue(value) ==
    LET Try(parsed) == IF parsed.ok THEN parsed.val ELSE CoerceNonJSON(value)
    IN Try(JSONParse(value))

(***************************************************************************)
(* One parameter block of an invoke block, as parseInvokeBlock treats it.  *)
(***************************************************************************)
RawAlphabet == {"1", "0", ".", "-", " ", "a", "\""}

\* the values the specification names, and a few more of each kind
RawSamples ==
    { Chars("true"), <<"F", "A", "L", "S", "E">>, <<"T", "r", "u", "e">>,
      <<"4", "2">>, <<"3", ".", "1", "4">>, <<"h", "e", "l", "l", "o">>,
      <<"{", "\"", "a", "\"", ":", "1", "}">>,
      <<"[", "1", ",", " ", "\"", "a", "\"", "]">>,
      <<"{", "\"", "a", "\"", ":", "1", ",", "\"", "a", "\"", ":", "2", "}">>,
      Chars("null"), Chars("Infinity"), <<"+", "4", "2">>, <<"0", "4", "2">>,
      <<" ", "4", "2", "\n">>, <<"\n", " ">>, <<"4", "2", ".", "0">>,
      <<"\"", "4", "2", "\"">>, <<"4", "2", "p", "x">>, <<"t", "r", "u", "e", "!">> }

RECURSIVE SeqsUpTo(_, _)
SeqsUpTo(S, n) ==
    IF n = 0 THEN {<< >>}
    ELSE LET shorter == SeqsUpTo(S, n - 1)
         IN shorter \cup {Append(q, c) : q \in {r \in shorter : Len(r) = n - 1}, c \in S}

RawInputs == RawSamples \cup SeqsUpTo(RawAlphabet, MaxRawLen)

NoOutcome == [op |-> "none", args |-> << >>, ret |-> << >>]

CoerceInit ==
    /\ raw \in RawInputs
    /\ coerced = JSNull
    /\ cpc = "raw"
    /\ payload = JSNull
    /\ outcome = NoOutcome

CoerceIdle ==
    /\ raw = << >>
    /\ coerced = JSNull
    /\ cpc = "idle"
    /\ payload = JSNull
    /\ outcome = NoOutcome

\* parseInvokeBlock, the body of its loop: paramMatch[2].trim(), then
\* parseParameterValue
CoerceParameter ==
    /\ cpc = "raw"
    /\ coerced' = parseParameterValue(Trim(raw))
    /\ cpc' = "done"
    /\ UNCHANGED <<raw, payload, outcome, parserVars, pureVars, registryVars>>
    /\ UNCHANGED serviceVars

(***************************************************************************)
(* Calls on one JavaScript value: XMLToolParser.validateToolCall with the  *)
(* value as parameters, Tool.success with it as output, Tool.error with it *)
(* as message.                                                             *)
(***************************************************************************)
JSUndefined ==
    [type |-> "undefined", repr |-> <<"u", "n", "d", "e", "f", "i", "n", "e", "d">>]

\* the values the parser produces, and undefined
JSValues == {parseParameterValue(Trim(r)) : r \in RawSamples} \cup {JSUndefined}

\* typeof v
TypeOf(v) ==
    IF v.type \in {"null", "object", "array"} THEN "object" ELSE v.type

\* truthiness of a string
Truthy(str) == str # ""

\* XMLToolParser.validateToolCall
validateToolCall(toolCall) ==
    /\ Truthy(toolCall.toolName)
    /\ Truthy(toolCall.functionName)
    /\ TypeOf(toolCall.parameters) = "object"
    /\ Truthy(toolCall.rawXml)

\* an envelope that reports the message as output
errorAsOutput(message, metadata) ==
    <<[key |-> "success", val |-> JSBool(FALSE)],
      [key |-> "output", val |-> message],
      [key |-> "metadata", val |-> metadata]>>

\* Tool.success: the object literal { success: true, output, metadata }
success(output, metadata) ==
    <<[key |-> "success", val |-> JSBool(TRUE)],
      [key |-> "output", val |-> output],
      [key |-> "metadata", val |-> metadata]>>

\* Tool.error: the object literal { success: false, error: message, metadata }
error(message, metadata) ==
    <<[key |-> "success", val |-> JSBool(FALSE)],
      [key |-> "error", val |-> message],
      [key |-> "metadata", val |-> metadata]>>

NameStrings == {"", "a"}
RawXmlStrings == {"", "<invoke name=\"a\"></invoke>"}
Metadata == {JSUndefined, JSObject(<<"{", "}">>)}

ValueInit ==
    /\ raw = << >>
    /\ coerced = JSNull
    /\ cpc = "idle"
    /\ payload \in JSValues
    /\ outcome = NoOutcome

ValidateToolCall ==
    /\ outcome.op = "none"
    /\ \E toolName \in NameStrings, functionName \in NameStrings, rawXml \in RawXmlStrings :
         LET Call(toolCall) ==
                 outcome' = [op |-> "validateToolCall", args |-> toolCall,
                             ret |-> validateToolCall(toolCall)]
         IN Call([toolName |-> toolName, functionName |-> functionName,
                  parameters |-> payload, rawXml |-> rawXml])
    /\ UNCHANGED <<raw, coerced, cpc, payload, parserVars, pureVars, registryVars>>
    /\ UNCHANGED serviceVars

ToolSuccess ==
    /\ outcome.op = "none"
    /\ \E metadata \in Metadata :
         outcome' = [op |-> "success", args |-> [output |-> payload, metadata |-> metadata],
                     ret |-> success(payload, metadata)]
    /\ UNCHANGED <<raw, coerced, cpc, payload, parserVars, pureVars, registryVars>>
    /\ UNCHANGED serviceVars

ToolError ==
    /\ outcome.op = "none"
    /\ payload.type = "string"
    /\ \E metadata \in Metadata :
         outcome' = [op |-> "error", args |-> [message |-> payload, metadata |-> metadata],
                     ret |-> error(payload, metadata)]
    /\ UNCHANGED <<raw, coerced, cpc, payload, parserVars, pureVars, registryVars>>
    /\ UNCHANGED serviceVars

(***************************************************************************)
(* XMLToolParser.  The static patterns carry a lastIndex each; li is the   *)
(* record of the three, read by matchAll and threaded through every call.  *)
(***************************************************************************)
\* re.lastIndex if the pattern itself had been run once (re.exec / re.test)
LastIndexAfterExec(li, ms) == IF ms = << >> THEN 0 ELSE ms[1].close

\* re.lastIndex after text.matchAll(re): matchAll works on a clone, re is untouched
LastIndexAfter(li, ms) == li

\* a variant in which the first block of a name is kept
RECURSIVE CollectParametersFirst(_, _, _, _)
CollectParametersFirst(content, pms, k, params) ==
    IF k > Len(pms) THEN params
    ELSE CollectParametersFirst(content, pms, k + 1,
            ObjSetIfAbsent(params, NameOf("parameter", content[pms[k].open]),
                           parseParameterValue(Trim(Content(content, pms[k])))))

\* the loop of parseInvokeBlock over the parameter matches; a repeated name
\* overwrites the earlier entry
RECURSIVE CollectParameters(_, _, _, _)
CollectParameters(content, pms, k, params) ==
    IF k > Len(pms) THEN params
    ELSE CollectParameters(content, pms, k + 1,
            ObjSet(params, NameOf("parameter", content[pms[k].open]),
                      parseParameterValue(Trim(Content(content, pms[k])))))

\* a variant that raises on an invoke block without parameter blocks
parseInvokeBlockStrict(toolName, content, rawXml, li) ==
    LET Build(pms) ==
            [threw |-> pms = << >>,
             call |-> [toolName |-> toolName, functionName |-> toolName,
                       parameters |-> CollectParameters(content, pms, 1, << >>),
                       rawXml |-> rawXml],
             li |-> [li EXCEPT !.parameter = LastIndexAfter(li.parameter, pms)]]
    IN Build(MatchAll("parameter", content, li.parameter))

\* a variant that keeps the inner content of the block as rawXml
parseInvokeBlockInner(toolName, content, rawXml, li) ==
    LET Build(pms) ==
            [threw |-> FALSE,
             call |-> [toolName |-> toolName, functionName |-> toolName,
                       parameters |-> CollectParameters(content, pms, 1, << >>),
                       rawXml |-> content],
             li |-> [li EXCEPT !.parameter = LastIndexAfter(li.parameter, pms)]]
    IN Build(MatchAll("parameter", content, li.parameter))

\* XMLToolParser.parseInvokeBlock; nothing in it raises
parseInvokeBlock(toolName, content, rawXml, li) ==
    LET Build(pms) ==
            [threw |-> FALSE,
             call |-> [toolName |-> toolName, functionName |-> toolName,
                       parameters |-> CollectParameters(content, pms, 1, << >>),
                       rawXml |-> rawXml],
             li |-> [li EXCEPT !.parameter = LastIndexAfter(li.parameter, pms)]]
    IN Build(MatchAll("parameter", content, li.parameter))

\* result.errors.push() as written: called without an argument, it appends nothing
ErrorsPush(errors) == errors

\* the inner loop of parseToolCalls over the invoke matches of one container:
\* try { toolCalls.push(parseInvokeBlock(..)) } catch { errors.push(); success = false }
RECURSIVE ParseInvokes(_, _, _, _)
ParseInvokes(content, ims, k, acc) ==
    LET TryCatch(r) ==
            IF r.threw
            THEN [acc EXCEPT !.errors = ErrorsPush(acc.errors),
                             !.success = FALSE, !.li = r.li]
            ELSE [acc EXCEPT !.toolCalls = Append(acc.toolCalls, r.call), !.li = r.li]
    IN IF k > Len(ims) THEN acc
       ELSE ParseInvokes(content, ims, k + 1,
                TryCatch(parseInvokeBlock(NameOf("invoke", content[ims[k].open]),
                                          Content(content, ims[k]),
                                          Whole(content, ims[k]), acc.li)))

\* the outer loop of parseToolCalls over the function_calls matches
RECURSIVE ParseContainers(_, _, _, _)
ParseContainers(txt, fms, k, acc) ==
    LET Invokes(content, ims) ==
            ParseInvokes(content, ims, 1,
                [acc EXCEPT !.li.invoke = LastIndexAfter(acc.li.invoke, ims)])
        Container(content) == Invokes(content, MatchAll("invoke", content, acc.li.invoke))
    IN IF k > Len(fms) THEN acc
       ELSE ParseContainers(txt, fms, k + 1, Container(Content(txt, fms[k])))

\* the result object parseToolCalls starts from
NewResult(txt) ==
    [success |-> TRUE, toolCalls |-> << >>, errors |-> << >>, remainingText |-> txt]

\* a variant that forgets to trim the remaining text
FinishUntrimmed(txt, acc) ==
    [threw |-> FALSE,
     val |-> [success |-> acc.success, toolCalls |-> acc.toolCalls,
              errors |-> acc.errors,
              remainingText |-> ReplaceAll("function_calls", txt)],
     li |-> [acc.li EXCEPT !.function_calls = 0]]

\* the result once the loops are done: the containers are cut out of the text,
\* which resets the lastIndex of FUNCTION_CALLS_PATTERN (replace with a g pattern)
Finish(txt, acc) ==
    [threw |-> FALSE,
     val |-> [success |-> acc.success, toolCalls |-> acc.toolCalls,
              errors |-> acc.errors,
              remainingText |-> Trim(ReplaceAll("function_calls", txt))],
     li |-> [acc.li EXCEPT !.function_calls = 0]]

StartAcc(li) == [toolCalls |-> << >>, errors |-> << >>, success |-> TRUE, li |-> li]

\* a variant without the early return: the text is always rewritten and trimmed
parseToolCallsNoEarlyReturn(txt, li) ==
    Finish(txt, ParseContainers(txt, MatchAll("function_calls", txt, li.function_calls),
                                1, StartAcc(li)))

\* XMLToolParser.parseToolCalls.  Everything runs inside try/catch and nothing
\* outside the inner try raises, so threw is FALSE on every path.
parseToolCalls(txt, li) ==
    LET Matched(fms, li1) ==
            IF fms = << >>
            THEN [threw |-> FALSE, val |-> NewResult(txt), li |-> li1]
            ELSE Finish(txt, ParseContainers(txt, fms, 1, StartAcc(li1)))
        Found(fms) ==
            Matched(fms, [li EXCEPT !.function_calls =
                                        LastIndexAfter(li.function_calls, fms)])
    IN Found(MatchAll("function_calls", txt, li.function_calls))

\* a loop that pushes every name without the includes test
RECURSIVE DedupKeepAll(_, _, _, _)
DedupKeepAll(txt, ims, k, names) ==
    IF k > Len(ims) THEN names
    ELSE DedupKeepAll(txt, ims, k + 1, Append(names, NameOf("invoke", txt[ims[k].open])))

\* toolNames.includes / push over the matches
RECURSIVE Dedup(_, _, _, _)
Dedup(txt, ims, k, names) ==
    LET Push(toolName) ==
            IF \E n \in 1..Len(names) : names[n] = toolName
            THEN names ELSE Append(names, toolName)
    IN IF k > Len(ims) THEN names
       ELSE Dedup(txt, ims, k + 1, Push(NameOf("invoke", txt[ims[k].open])))

\* XMLToolParser.extractToolNames
extractToolNames(txt, li) ==
    LET Names(ims) ==
            [val |-> Dedup(txt, ims, 1, << >>),
             li |-> [li EXCEPT !.invoke = LastIndexAfter(li.invoke, ims)]]
    IN Names(MatchAll("invoke", txt, li.invoke))

FreshLastIndex == [function_calls |-> 0, invoke |-> 0, parameter |-> 0]

(***************************************************************************)
(* The agent's text arrives in chunks; parseToolCalls is run on the whole. *)
(***************************************************************************)
OneParam == <<ParamOpenTag("p"), "1", PC>>

Chunks ==
    {<<FO>>, <<FC>>, <<IC>>, <<" ">>, <<"x">>, OneParam}
        \cup {<<t>> : t \in InvokeOpens}

\* how a text may begin: with nothing, or with prose and the start of a container
\* that already holds one complete invoke block
Seeds ==
    { << >>,
      <<" ", "x", " ", FO, InvokeOpenTag("a")>> \o OneParam \o <<IC>> }

ParseInit ==
    /\ text \in Seeds
    /\ chunks = 0
    /\ pc = "emit"
    /\ result = [threw |-> FALSE, val |-> NewResult(<< >>)]

Emit ==
    /\ pc = "emit"
    /\ chunks < MaxChunks
    /\ \E c \in Chunks : text' = text \o c
    /\ chunks' = chunks + 1
    /\ UNCHANGED <<pc, result, pureVars, coerceVars, registryVars>>
    /\ UNCHANGED serviceVars

ParseToolCalls ==
    /\ pc = "emit"
    /\ LET Return(r) ==
               /\ result' = [threw |-> r.threw, val |-> r.val]
               /\ lastIndex' = r.li
       IN Return(parseToolCalls(text, lastIndex))
    /\ pc' = "parsed"
    /\ UNCHANGED <<text, chunks, calls, coerceVars, registryVars>>
    /\ UNCHANGED serviceVars

\* XMLToolParser.extractToolNames on the text produced so far
ExtractToolNames ==
    /\ pc = "emit"
    /\ LET Return(r) ==
               /\ result' = [threw |-> FALSE, val |-> r.val]
               /\ lastIndex' = r.li
       IN Return(extractToolNames(text, lastIndex))
    /\ pc' = "extracted"
    /\ UNCHANGED <<text, chunks, calls, coerceVars, registryVars>>
    /\ UNCHANGED serviceVars

(***************************************************************************)
(* One invoke block: its content is a run of parameter blocks, on which    *)
(* parseInvokeBlock is run (text holds the content of the block).          *)
(***************************************************************************)
MaxBlocks == 3

ParamValues == {<<"1">>, <<" ", "x">>, << >>}

ParameterBlocks ==
    {<<ParamOpenTag(n)>> \o v \o <<PC>> : n \in ParamNames, v \in ParamValues}

InvokeInit ==
    /\ text = << >>
    /\ chunks = 0
    /\ pc = "content"
    /\ result = [threw |-> FALSE, val |-> NewResult(<< >>)]

EmitParameter ==
    /\ pc = "content"
    /\ chunks < MaxBlocks
    /\ \E b \in ParameterBlocks : text' = text \o b
    /\ chunks' = chunks + 1
    /\ UNCHANGED <<pc, result, pureVars, coerceVars, registryVars>>
    /\ UNCHANGED serviceVars

\* parseInvokeBlock(match[1], match[2], match[0]) on <invoke name="a">text</invoke>
ParseInvokeBlock ==
    /\ pc = "content"
    /\ LET Return(r) ==
               /\ result' = [threw |-> r.threw, val |-> r.call]
               /\ lastIndex' = r.li
       IN Return(parseInvokeBlock("a", text,
                                  <<InvokeOpenTag("a")>> \o text \o <<IC>>, lastIndex))
    /\ pc' = "built"
    /\ UNCHANGED <<text, chunks, calls, coerceVars, registryVars>>
    /\ UNCHANGED serviceVars

(***************************************************************************)
(* Repeated calls of the two static entry points on a pool of texts.       *)
(***************************************************************************)
PureTexts ==
    { <<FO, InvokeOpenTag("a")>> \o OneParam \o <<IC, FC>>,
      <<"x", FO, InvokeOpenTag("a"), IC, InvokeOpenTag("b"), IC, FC, " ">>,
      <<FO, InvokeOpenTag("a"), IC, FC, "x", FO, InvokeOpenTag("b"), IC, FC>>,
      <<InvokeOpenTag("b"), IC, InvokeOpenTag("a"), IC, InvokeOpenTag("b"), IC>>,
      <<InvokeOpenTag("a"), FO, InvokeOpenTag("b"), IC, FC>>,
      <<" ", "x">> }

PureInit ==
    /\ lastIndex = FreshLastIndex
    /\ calls = << >>

CallParseToolCalls ==
    /\ Len(calls) < MaxCalls
    /\ \E t \in PureTexts :
         LET Return(r) ==
                 /\ calls' = Append(calls, [op |-> "parseToolCalls", text |-> t,
                                            ret |-> [threw |-> r.threw, val |-> r.val]])
                 /\ lastIndex' = r.li
         IN Return(parseToolCalls(t, lastIndex))
    /\ UNCHANGED <<parserVars, coerceVars, registryVars>>
    /\ UNCHANGED serviceVars

CallExtractToolNames ==
    /\ Len(calls) < MaxCalls
    /\ \E t \in PureTexts :
         LET Return(r) ==
                 /\ calls' = Append(calls, [op |-> "extractToolNames", text |-> t,
                                            ret |-> [threw |-> FALSE, val |-> r.val]])
                 /\ lastIndex' = r.li
         IN Return(extractToolNames(t, lastIndex))
    /\ UNCHANGED <<parserVars, coerceVars, registryVars>>
    /\ UNCHANGED serviceVars

(***************************************************************************)
(* Tool classes, the schema decorators and the ToolRegistry.               *)
(*                                                                         *)
(* A schema entry is [type, name, by]: the dialect, the name of the schema *)
(* payload (function name or XML tag) and the class whose definition       *)
(* created the object (its identity).                                      *)
(***************************************************************************)
ToolKinds == {"ToolA", "ToolB", "ToolC"}
\* the classes of a program with two tool classes
TwoKinds == {"ToolA", "ToolB"}

\* one decorator application: @openApiSchema / @xmlSchema on method key
Decorators ==
    { [key |-> "f", type |-> "openapi", name |-> "f"],
      [key |-> "f", type |-> "xml", name |-> "t"],
      [key |-> "g", type |-> "xml", name |-> "t"] }

\* a class applies no decorator, one, or two different ones
ClassBodies ==
    {<< >>} \cup {<<d>> : d \in Decorators}
            \cup UNION {{<<d, e>> : e \in Decorators \ {d}} : d \in Decorators}

\* registerTool's functionNames argument
Undefined == [given |-> FALSE, names |-> << >>]
Filters ==
    { Undefined,
      [given |-> TRUE, names |-> << >>],
      [given |-> TRUE, names |-> <<"f">>],
      [given |-> TRUE, names |-> <<"g", "h">>],
      [given |-> TRUE, names |-> <<"toString">>] }

\* openApiSchema / xmlSchema: target.constructor._schemas is found on Tool through
\* the prototype chain of every subclass, so the test !_schemas is false and the
\* entry is written to the one object Tool._schemas
ApplyDecorator(schemas, d, kind) ==
    ObjSet(schemas, d.key, [type |-> d.type, name |-> d.name, by |-> kind,
                            example |-> <<kind, d.key>>])

RECURSIVE ApplyDecorators(_, _, _, _)
ApplyDecorators(schemas, body, k, kind) ==
    IF k > Len(body) THEN schemas
    ELSE ApplyDecorators(ApplyDecorator(schemas, body[k], kind), body, k + 1, kind)

\* Tool.getSchemas(): this._schemas || {}, the shared object itself
getSchemas(kind) == toolSchemas

\* a class handed to registerTool whose own static getSchemas() returns nothing:
\* (toolClass as any).getSchemas() is called unchecked, and is undefined for it
SchemalessTool == "SchemalessTool"
ReturnsSchemas(kind) == kind # SchemalessTool

\* allSchemas[funcName]: an own entry, else a member inherited from
\* Object.prototype (a function, which is truthy and has no .type), else undefined
ObjectPrototypeKeys == {"toString"}
Inherited(k) == [type |-> "undefined", name |-> k, by |-> "Object.prototype",
                 example |-> << >>]
Lookup(allSchemas, k) ==
    IF ObjHas(allSchemas, k) THEN [truthy |-> TRUE, val |-> ObjGet(allSchemas, k)]
    ELSE IF k \in ObjectPrototypeKeys THEN [truthy |-> TRUE, val |-> Inherited(k)]
    ELSE [truthy |-> FALSE, val |-> Inherited(k)]

\* the loop of registerTool that copies the listed entries
RECURSIVE FilterSchemas(_, _, _, _)
FilterSchemas(allSchemas, names, k, filtered) ==
    IF k > Len(names) THEN filtered
    ELSE FilterSchemas(allSchemas, names, k + 1,
            IF Lookup(allSchemas, names[k]).truthy
            THEN ObjSet(filtered, names[k], Lookup(allSchemas, names[k]).val)
            ELSE filtered)

\* filteredSchemas: allSchemas itself (an alias of Tool._schemas) unless a
\* non-empty functionNames is given, then a new object
\* (none marks the value undefined, what a getSchemas without a result leaves)
FilteredSchemas(kind, filter) ==
    IF filter.given /\ Len(filter.names) > 0
    THEN [alias |-> FALSE, none |-> FALSE,
          own |-> FilterSchemas(getSchemas(kind), filter.names, 1, << >>)]
    ELSE IF ReturnsSchemas(kind)
    THEN [alias |-> TRUE, none |-> FALSE, own |-> << >>]
    ELSE [alias |-> FALSE, none |-> TRUE, own |-> << >>]

\* the object a schemas reference stands for
Deref(schemas) == IF schemas.alias THEN toolSchemas ELSE schemas.own

HasType(schemas, type) == \E n \in 1..Len(schemas) : schemas[n].val.type = type

\* a registry that keeps the first registration of a kind
RegisteredFirstWins(kind, toolInfo) ==
    [tools |-> ObjSetIfAbsent(tools, kind, toolInfo),
     xmlTools |-> IF HasType(Deref(toolInfo.schemas), "xml")
                  THEN ObjSetIfAbsent(xmlTools, kind, toolInfo)
                  ELSE xmlTools]

\* ToolRegistry.registerTool, from the new ToolInfo on
Registered(kind, toolInfo) ==
    [tools |-> ObjSet(tools, kind, toolInfo),
     xmlTools |-> IF HasType(Deref(toolInfo.schemas), "xml")
                  THEN ObjSet(xmlTools, kind, toolInfo)
                  ELSE xmlTools]

\* ToolRegistry.getTool
getTool(toolName) ==
    IF ObjHas(tools, toolName) THEN ObjGet(tools, toolName).instance ELSE 0

\* ToolRegistry.getToolSchemas (<< >> with found = FALSE stands for null)
getToolSchemas(toolName) ==
    IF ObjHas(tools, toolName)
    THEN [found |-> TRUE, schemas |-> Deref(ObjGet(tools, toolName).schemas)]
    ELSE [found |-> FALSE, schemas |-> << >>]

\* ToolRegistry.getAllTools
getAllTools == [n \in 1..Len(tools) |-> [key |-> tools[n].key, val |-> tools[n].val.instance]]

\* the inner loop of getXMLTool: toolInfo has an xml schema whose name is the tag
HasXMLTag(toolInfo, xmlTagName) ==
    \E n \in 1..Len(Deref(toolInfo.schemas)) :
        /\ Deref(toolInfo.schemas)[n].val.type = "xml"
        /\ Deref(toolInfo.schemas)[n].val.name = xmlTagName

\* ToolRegistry.getXMLTool: the first entry of xmlTools, in insertion order,
\* with a matching xml schema (0 stands for null)
getXMLTool(xmlTagName) ==
    LET hits == {n \in 1..Len(xmlTools) : HasXMLTag(xmlTools[n].val, xmlTagName)}
    IN IF hits = {} THEN 0 ELSE xmlTools[Min(hits)].val.instance

\* the key of schemas[...] = openApiSchema in getOpenAPISchemas: the function name
OpenAPIKey(toolName, funcName) == funcName

\* the inner loop of getOpenAPISchemas over the schemas of one tool
RECURSIVE AddOpenAPI(_, _, _, _)
AddOpenAPI(toolName, schemas, k, acc) ==
    IF k > Len(schemas) THEN acc
    ELSE AddOpenAPI(toolName, schemas, k + 1,
            IF schemas[k].val.type = "openapi"
            THEN ObjSet(acc, OpenAPIKey(toolName, schemas[k].key), schemas[k].val)
            ELSE acc)

RECURSIVE OpenAPIFrom(_, _)
OpenAPIFrom(n, acc) ==
    IF n > Len(tools) THEN acc
    ELSE OpenAPIFrom(n + 1,
            AddOpenAPI(tools[n].key, Deref(tools[n].val.schemas), 1, acc))

\* ToolRegistry.getOpenAPISchemas
getOpenAPISchemas == OpenAPIFrom(1, << >>)

\* the inner loop of getXMLExamples: examples[xmlSchema.name] = xmlSchema.example
RECURSIVE AddXMLExamples(_, _, _)
AddXMLExamples(schemas, k, acc) ==
    IF k > Len(schemas) THEN acc
    ELSE AddXMLExamples(schemas, k + 1,
            IF schemas[k].val.type = "xml"
            THEN ObjSet(acc, schemas[k].val.name, schemas[k].val.example)
            ELSE acc)

RECURSIVE XMLExamplesFrom(_, _)
XMLExamplesFrom(n, acc) ==
    IF n > Len(xmlTools) THEN acc
    ELSE XMLExamplesFrom(n + 1, AddXMLExamples(Deref(xmlTools[n].val.schemas), 1, acc))

\* ToolRegistry.getXMLExamples
getXMLExamples == XMLExamplesFrom(1, << >>)

\* totalFunctions += Object.keys(toolInfo.schemas).length over the tools
RECURSIVE TotalFunctionsFrom(_, _)
TotalFunctionsFrom(n, total) ==
    IF n > Len(tools) THEN total
    ELSE TotalFunctionsFrom(n + 1, total + Len(Deref(tools[n].val.schemas)))

\* statistics read from the XML index instead of the schemas of the tools
getStatsFromIndex ==
    [totalTools |-> Len(tools),
     totalFunctions |-> TotalFunctionsFrom(1, 0),
     xmlTools |-> Len(xmlTools),
     openApiTools |->
        Cardinality({n \in 1..Len(tools) : HasType(Deref(tools[n].val.schemas), "openapi")})]

\* ToolRegistry.getStats
getStats ==
    [totalTools |-> Len(tools),
     totalFunctions |-> TotalFunctionsFrom(1, 0),
     xmlTools |->
        Cardinality({n \in 1..Len(tools) : HasType(Deref(tools[n].val.schemas), "xml")}),
     openApiTools |->
        Cardinality({n \in 1..Len(tools) : HasType(Deref(tools[n].val.schemas), "openapi")})]

\* ToolRegistry.hasTool / getToolNames
hasTool(toolName) == ObjHas(tools, toolName)
getToolNames == ObjKeys(tools)

\* a class handed to registerTool that does not extend Tool: it has no getSchemas
NotATool == "NotATool"
ToolClasses == ToolKinds \cup {NotATool}
HasGetSchemas(kind) == kind # NotATool

\* the ...args handed on to the constructor; a constructor may reject them
CtorArgs == {"ok", "bad"}
Construct(kind, args) == [threw |-> args = "bad", instance |-> nextInstance]

\* a registerTool whose catch block swallows the error
registerToolSwallow(kind, filter, args) ==
    IF Construct(kind, args).threw \/ ~HasGetSchemas(kind)
    THEN [threw |-> FALSE, tools |-> tools, xmlTools |-> xmlTools]
    ELSE [threw |-> FALSE,
          tools |-> Registered(kind, [instance |-> Construct(kind, args).instance,
                                      schemas |-> FilteredSchemas(kind, filter),
                                      functionNames |-> filter]).tools,
          xmlTools |-> Registered(kind, [instance |-> Construct(kind, args).instance,
                                         schemas |-> FilteredSchemas(kind, filter),
                                         functionNames |-> filter]).xmlTools]

\* ToolRegistry.registerTool: new toolClass(...args) or toolClass.getSchemas()
\* may throw before anything is stored; the catch block logs and rethrows.
\* With allSchemas undefined, allSchemas[funcName] throws in the filter loop,
\* before the store; without a filter this.tools[toolName] is assigned first
\* and Object.entries(filteredSchemas) throws after it.
registerTool(kind, filter, args) ==
    LET Stored(r) == [threw |-> FALSE, tools |-> r.tools, xmlTools |-> r.xmlTools]
        Try(made) ==
            IF made.threw \/ ~HasGetSchemas(kind)
            THEN [threw |-> TRUE, tools |-> tools, xmlTools |-> xmlTools]
            ELSE IF ~ReturnsSchemas(kind)
            THEN IF filter.given /\ Len(filter.names) > 0
                 THEN [threw |-> TRUE, tools |-> tools, xmlTools |-> xmlTools]
                 ELSE [threw |-> TRUE,
                       tools |-> ObjSet(tools, kind,
                                        [instance |-> made.instance,
                                         schemas |-> FilteredSchemas(kind, filter),
                                         functionNames |-> filter]),
                       xmlTools |-> xmlTools]
            ELSE Stored(Registered(kind, [instance |-> made.instance,
                                          schemas |-> FilteredSchemas(kind, filter),
                                          functionNames |-> filter]))
    IN Try(Construct(kind, args))

\* functionNames is not read before the constructor and getSchemas have run, so
\* the calls that fail there are tried with functionNames omitted only
FiltersTried(kind, args) ==
    IF Construct(kind, args).threw \/ ~HasGetSchemas(kind) THEN {Undefined} ELSE Filters

\* the two maps as a failed call found them (empty for every other call)
NoSnapshot == [tools |-> << >>, xmlTools |-> << >>]

NoCall == [op |-> "none", kind |-> "", filter |-> Undefined, args |-> "ok",
           instance |-> 0, threw |-> FALSE, repeated |-> FALSE, before |-> NoSnapshot]

\* (the two classes are interchangeable, so of two programs that differ by
\* exchanging them the one whose ToolA declares no more than its ToolB is kept)
RegistryInit ==
    /\ classBody \in [TwoKinds -> ClassBodies]
    /\ Len(classBody["ToolA"]) <= Len(classBody["ToolB"])
    /\ loaded = {}
    /\ toolSchemas = << >>
    /\ tools = << >>
    /\ xmlTools = << >>
    /\ nextInstance = 1
    /\ regLast = NoCall
    /\ regCount = [k \in TwoKinds |-> 0]

\* a program with three tool classes, each declaring at most one capability f
SmallBodies ==
    { << >>,
      <<[key |-> "f", type |-> "openapi", name |-> "f"]>>,
      <<[key |-> "f", type |-> "xml", name |-> "t"]>> }

RegistryThreeInit ==
    /\ classBody \in [ToolKinds -> SmallBodies]
    /\ loaded = {}
    /\ toolSchemas = << >>
    /\ tools = << >>
    /\ xmlTools = << >>
    /\ nextInstance = 1
    /\ regLast = NoCall
    /\ regCount = [k \in ToolKinds |-> 0]

\* a program with one tool class and one class whose getSchemas returns nothing
RegistryForeignInit ==
    /\ classBody \in [{"ToolA", SchemalessTool} -> ClassBodies]
    /\ classBody[SchemalessTool] = << >>
    /\ loaded = {}
    /\ toolSchemas = << >>
    /\ tools = << >>
    /\ xmlTools = << >>
    /\ nextInstance = 1
    /\ regLast = NoCall
    /\ regCount = [k \in {"ToolA", SchemalessTool} |-> 0]

RegistryIdle ==
    /\ classBody = [k \in TwoKinds |-> << >>]
    /\ loaded = {}
    /\ toolSchemas = << >>
    /\ tools = << >>
    /\ xmlTools = << >>
    /\ nextInstance = 1
    /\ regLast = NoCall
    /\ regCount = [k \in TwoKinds |-> 0]

\* the definition of a tool class runs: its decorators are applied in order
LoadClass ==
    /\ \E kind \in (DOMAIN classBody) \ loaded :
         /\ toolSchemas' = ApplyDecorators(toolSchemas, classBody[kind], 1, kind)
         /\ loaded' = loaded \cup {kind}
    /\ regLast' = [NoCall EXCEPT !.op = "class definition"]
    /\ UNCHANGED <<classBody, tools, xmlTools, nextInstance, regCount>>
    /\ UNCHANGED <<parserVars, pureVars, coerceVars>>
    /\ UNCHANGED serviceVars

\* registry.registerTool(toolClass, functionNames)
RegisterTool ==
    /\ nextInstance <= MaxRegistrations
    /\ \E kind \in loaded \cup {NotATool}, args \in CtorArgs :
       \E filter \in FiltersTried(kind, args) :
         LET Store(r) ==
                 /\ tools' = r.tools
                 /\ xmlTools' = r.xmlTools
                 /\ regLast' = [op |-> "registerTool", kind |-> kind,
                                 filter |-> IF r.threw THEN Undefined ELSE filter,
                                 args |-> args,
                                 instance |-> IF r.threw THEN 0 ELSE nextInstance,
                                 threw |-> r.threw, repeated |-> FALSE,
                                 before |-> IF r.threw
                                            THEN [tools |-> tools, xmlTools |-> xmlTools]
                                            ELSE NoSnapshot]
                 /\ nextInstance' = IF Construct(kind, args).threw
                                     THEN nextInstance ELSE nextInstance + 1
                 /\ regCount' = IF r.threw THEN regCount
                                 ELSE [regCount EXCEPT ![kind] = IF @ < 2 THEN @ + 1 ELSE @]
         IN Store(registerTool(kind, filter, args))
    /\ UNCHANGED <<classBody, loaded, toolSchemas>>
    /\ UNCHANGED <<parserVars, pureVars, coerceVars>>
    /\ UNCHANGED serviceVars

\* a clear that forgets the XML index
clearToolsOnly(reg) == [tools |-> << >>, xmlTools |-> reg.xmlTools]

\* ToolRegistry.clear: both maps are replaced by empty objects
clear(reg) == [tools |-> << >>, xmlTools |-> << >>]

\* registry.clear()
Clear ==
    /\ tools' = clear([tools |-> tools, xmlTools |-> xmlTools]).tools
    /\ xmlTools' = clear([tools |-> tools, xmlTools |-> xmlTools]).xmlTools
    /\ regLast' = [NoCall EXCEPT !.op = "clear", !.repeated = (regLast.op = "clear")]
    /\ UNCHANGED <<classBody, loaded, toolSchemas, nextInstance, regCount>>
    /\ UNCHANGED <<parserVars, pureVars, coerceVars>>
    /\ UNCHANGED serviceVars

(***************************************************************************)
(* Tool.validateParameters.  A structured payload is read at               *)
(* schema.function.parameters.required; payload records whether it has the *)
(* function member (the tools of apps/backend pass { name, description,    *)
(* parameters } without it) and its required list.                         *)
(***************************************************************************)
NoRequired == [given |-> FALSE, names |-> << >>]
Required(names) == [given |-> TRUE, names |-> names]

StructuredSchema(hasFunction, required) ==
    [type |-> "openapi", schema |-> [hasFunction |-> hasFunction, required |-> required]]
InlineSchema ==
    [type |-> "xml", schema |-> [hasFunction |-> FALSE, required |-> NoRequired]]

\* Tool._schemas of a program whose methods carry these decorators
DeclaredSchemas ==
    <<[key |-> "f", val |-> StructuredSchema(TRUE, Required(<<"url">>))],
      [key |-> "g", val |-> InlineSchema],
      [key |-> "h", val |-> StructuredSchema(TRUE, NoRequired)],
      [key |-> "k", val |-> StructuredSchema(TRUE, Required(<<"url", "toString">>))],
      [key |-> "navigateTo", val |-> StructuredSchema(FALSE, Required(<<"url">>))]>>

MethodNames == {"f", "g", "h", "k", "navigateTo", "run", "toString"}

\* the parameters argument: an object with these own keys, or not an object
ParameterObjects == {[type |-> "object", keys |-> ks] : ks \in SUBSET {"url", "toString"}}
ParameterValues ==
    ParameterObjects \cup {[type |-> t, keys |-> {}] : t \in {"undefined", "null", "string"}}

\* requiredParam in parameters: own and inherited properties of an object, a
\* TypeError for anything else
In(name, parameters) ==
    [threw |-> parameters.type # "object",
     val |-> name \in parameters.keys \cup ObjectPrototypeKeys]

\* the loop of validateParameters over the required names
RECURSIVE CheckRequired(_, _, _)
CheckRequired(required, k, parameters) ==
    IF k > Len(required) THEN [threw |-> FALSE, ret |-> TRUE]
    ELSE IF In(required[k], parameters).threw \/ ~In(required[k], parameters).val
    THEN [threw |-> TRUE, ret |-> FALSE]
    ELSE CheckRequired(required, k + 1, parameters)

\* Tool.validateParameters
validateParameters(methodName, parameters) ==
    LET schemaInfo == Lookup(DeclaredSchemas, methodName)
    IN IF ~schemaInfo.truthy THEN [threw |-> FALSE, ret |-> TRUE]
       ELSE IF schemaInfo.val.type = "openapi"
       THEN IF ~schemaInfo.val.schema.hasFunction
            THEN [threw |-> TRUE, ret |-> FALSE]
            ELSE CheckRequired(IF schemaInfo.val.schema.required.given
                               THEN schemaInfo.val.schema.required.names
                               ELSE << >>, 1, parameters)
       ELSE [threw |-> FALSE, ret |-> TRUE]

ValidateParameters ==
    /\ outcome.op = "none"
    /\ \E methodName \in MethodNames, parameters \in ParameterValues :
         outcome' = [op |-> "validateParameters",
                     args |-> [methodName |-> methodName, parameters |-> parameters],
                     ret |-> validateParameters(methodName, parameters)]
    /\ UNCHANGED <<raw, coerced, cpc, payload, parserVars, pureVars, registryVars>>
    /\ UNCHANGED serviceVars

(***************************************************************************)
(* POST /agent/run and POST /agent/stop.  Every await of a handler is a    *)
(* point where the handlers of other requests may run; table threads is    *)
(* fixed, table agent_runs has no constraint the handler relies on.        *)
(***************************************************************************)
MaxRequests == 2

\* table threads: thread_id -> project_id
ThreadIds == {"t1", "t2", "t3"}
ProjectOf == [t \in ThreadIds |-> IF t = "t3" THEN "P2" ELSE "P1"]
\* P0 is a project without threads
Projects == {"P0", "P1", "P2"}

Bodies == [thread_id : ThreadIds, project_id : Projects]
NoBody == [thread_id |-> "", project_id |-> ""]
NewRequest == [pc |-> "new", body |-> NoBody, projectThreadIds |-> {}, status |-> 0]

RouteInit ==
    /\ agentRuns = {}
    /\ requests = [r \in 1..MaxRequests |-> NewRequest]

\* RunAgentSchema.parse(request.body); await getSupabaseClient()
Receive(r) ==
    /\ requests[r].pc = "new"
    /\ \E body \in Bodies :
         requests' = [requests EXCEPT ![r].pc = "threads", ![r].body = body]
    /\ UNCHANGED agentRuns

\* await client.from('threads').select('thread_id').eq('project_id', ...)
SelectProjectThreads(r) ==
    /\ requests[r].pc = "threads"
    /\ LET ids == {t \in ThreadIds : ProjectOf[t] = requests[r].body.project_id}
       IN requests' = [requests EXCEPT ![r].projectThreadIds = ids,
                                       ![r].pc = IF ids = {} THEN "thread" ELSE "active"]
    /\ UNCHANGED agentRuns

\* the rows .in('thread_id', projectThreadIds).eq('status', 'running') selects
ActiveRuns(ids) == {row \in agentRuns : row.thread_id \in ids /\ row.status = "running"}

\* await client.from('agent_runs').select('id')...; reply 409 if a row came back
SelectActiveRuns(r) ==
    /\ requests[r].pc = "active"
    /\ requests' = IF ActiveRuns(requests[r].projectThreadIds) # {}
                   THEN [requests EXCEPT ![r].pc = "done", ![r].status = 409]
                   ELSE [requests EXCEPT ![r].pc = "thread"]
    /\ UNCHANGED agentRuns

\* await client.from('threads').select(...).eq('thread_id', body.thread_id).single()
SelectThread(r) ==
    /\ requests[r].pc = "thread"
    /\ requests' = [requests EXCEPT ![r].pc = "insert"]
    /\ UNCHANGED agentRuns

\* the row the handler inserts (the request stands for its random UUID)
NewRun(r) ==
    [id |-> r, thread_id |-> requests[r].body.thread_id,
     project_id |-> requests[r].body.project_id, status |-> "running"]

\* await client.from('agent_runs').insert({... status: 'running' ...})
InsertRun(r) ==
    /\ requests[r].pc = "insert"
    /\ agentRuns' = agentRuns \cup {NewRun(r)}
    /\ requests' = [requests EXCEPT ![r].pc = "run"]

\* await runAgent(...) returns and the handler replies
RunAgentReturns(r) ==
    /\ requests[r].pc = "run"
    /\ requests' = [requests EXCEPT ![r].pc = "done", ![r].status = 200]
    /\ UNCHANGED agentRuns

\* POST /agent/run
RunAgent ==
    /\ \E r \in 1..MaxRequests :
         \/ Receive(r)
         \/ SelectProjectThreads(r)
         \/ SelectActiveRuns(r)
         \/ SelectThread(r)
         \/ InsertRun(r)
         \/ RunAgentReturns(r)
    /\ UNCHANGED <<parserVars, pureVars, coerceVars, registryVars, dbVars>>

\* POST /agent/stop: update({status: 'stopped'}).eq('id', agent_run_id)
StopAgent ==
    /\ \E row \in agentRuns :
         /\ row.status = "running"
         /\ agentRuns' = (agentRuns \ {row}) \cup {[row EXCEPT !.status = "stopped"]}
    /\ UNCHANGED requests
    /\ UNCHANGED <<parserVars, pureVars, coerceVars, registryVars, dbVars>>

(***************************************************************************)
(* DBConnection.  The static fields instance and initialized are shared;   *)
(* client belongs to one DBConnection object.  Objects are numbered in the *)
(* order of construction; whoever obtained one (a ThreadManager keeps the  *)
(* result of getInstance() in this.db) may call it later.  The environment *)
(* variables are set and each call is awaited before the next is made.     *)
(***************************************************************************)
MaxHandles == 3

DB == [instance |-> dbInstance, initialized |-> dbInitialized,
       client |-> dbClient, handles |-> dbHandles]

NoDBCall == [op |-> "none", handle |-> 0, threw |-> FALSE]

DBInit ==
    /\ dbInstance = 0
    /\ dbInitialized = FALSE
    /\ dbClient = [h \in 1..MaxHandles |-> FALSE]
    /\ dbHandles = 0
    /\ dbLast = NoDBCall

\* DBConnection.getInstance
getInstance(db) ==
    IF db.instance = 0
    THEN [db EXCEPT !.instance = db.handles + 1, !.handles = db.handles + 1]
    ELSE db

\* DBConnection.initialize
initialize(db, h) ==
    IF db.initialized THEN db
    ELSE [db EXCEPT !.client[h] = TRUE, !.initialized = TRUE]

\* DBConnection.getClient
getClient(db, h) ==
    LET Checked(d) == [threw |-> ~d.client[h], db |-> d]
    IN IF ~db.initialized \/ ~db.client[h]
       THEN Checked(initialize(db, h))
       ELSE Checked(db)

\* DBConnection.close
close(db, h) ==
    IF db.client[h]
    THEN [db EXCEPT !.client[h] = FALSE, !.initialized = FALSE]
    ELSE db

\* DBConnection.reset
reset(db) == [db EXCEPT !.instance = 0, !.initialized = FALSE]

DBStore(db, call) ==
    /\ dbInstance' = db.instance
    /\ dbInitialized' = db.initialized
    /\ dbClient' = db.client
    /\ dbHandles' = db.handles
    /\ dbLast' = call

NotDB == <<parserVars, pureVars, coerceVars, registryVars, routeVars>>

GetInstance ==
    /\ dbInstance = 0 => dbHandles < MaxHandles
    /\ DBStore(getInstance(DB),
               [op |-> "getInstance", handle |-> getInstance(DB).instance, threw |-> FALSE])
    /\ UNCHANGED NotDB

Initialize ==
    /\ \E h \in 1..dbHandles :
         DBStore(initialize(DB, h), [op |-> "initialize", handle |-> h, threw |-> FALSE])
    /\ UNCHANGED NotDB

GetClient ==
    /\ \E h \in 1..dbHandles :
         DBStore(getClient(DB, h).db,
                 [op |-> "getClient", handle |-> h, threw |-> getClient(DB, h).threw])
    /\ UNCHANGED NotDB

Close ==
    /\ \E h \in 1..dbHandles :
         DBStore(close(DB, h), [op |-> "close", handle |-> h, threw |-> FALSE])
    /\ UNCHANGED NotDB

Reset ==
    /\ DBStore(reset(DB), [op |-> "reset", handle |-> 0, threw |-> FALSE])
    /\ UNCHANGED NotDB

ServiceIdle == RouteInit /\ DBInit

(***************************************************************************)
(* Specifications.                                                         *)
(***************************************************************************)
ParseIdle ==
    /\ text = << >>
    /\ chunks = 0
    /\ pc = "idle"
    /\ result = [threw |-> FALSE, val |-> NewResult(<< >>)]

\* one parseToolCalls call on a text that arrives in chunks
Init == ParseInit /\ PureInit /\ CoerceIdle /\ RegistryIdle /\ ServiceIdle

Next == Emit \/ ParseToolCalls \/ ExtractToolNames

Spec == Init /\ [][Next]_vars

\* repeated parser calls
PureSpecInit == ParseIdle /\ PureInit /\ CoerceIdle /\ RegistryIdle /\ ServiceIdle

PureNext == CallParseToolCalls \/ CallExtractToolNames

SpecPure == PureSpecInit /\ [][PureNext]_vars

\* the coercion of one parameter value
CoerceSpecInit == ParseIdle /\ PureInit /\ CoerceInit /\ RegistryIdle /\ ServiceIdle

CoerceNext == CoerceParameter

SpecCoerce == CoerceSpecInit /\ [][CoerceNext]_vars

\* calls on one value
ValueSpecInit == ParseIdle /\ PureInit /\ ValueInit /\ RegistryIdle /\ ServiceIdle

ValueNext == ValidateToolCall \/ ToolSuccess \/ ToolError \/ ValidateParameters

SpecValues == ValueSpecInit /\ [][ValueNext]_vars

\* one invoke block
InvokeSpecInit == InvokeInit /\ PureInit /\ CoerceIdle /\ RegistryIdle /\ ServiceIdle
InvokeNext == EmitParameter \/ ParseInvokeBlock
SpecInvoke == InvokeSpecInit /\ [][InvokeNext]_vars

\* the agent routes
RouteSpecInit == ParseIdle /\ PureInit /\ CoerceIdle /\ RegistryIdle /\ ServiceIdle
RouteNext == RunAgent \/ StopAgent
SpecRoutes == RouteSpecInit /\ [][RouteNext]_vars

\* the database connection
DBSpecInit == ParseIdle /\ PureInit /\ CoerceIdle /\ RegistryIdle /\ ServiceIdle
DBNext == GetInstance \/ Initialize \/ GetClient \/ Close \/ Reset
SpecDB == DBSpecInit /\ [][DBNext]_vars

\* the registry
RegistrySpecInit == ParseIdle /\ PureInit /\ CoerceIdle /\ RegistryInit /\ ServiceIdle

RegistryNext == LoadClass \/ RegisterTool \/ Clear

RegistryThreeSpecInit == ParseIdle /\ PureInit /\ CoerceIdle /\ RegistryThreeInit /\ ServiceIdle
SpecRegistryThree == RegistryThreeSpecInit /\ [][RegistryNext]_vars

SpecRegistry == RegistrySpecInit /\ [][RegistryNext]_vars

RegistryForeignSpecInit == ParseIdle /\ PureInit /\ CoerceIdle /\ RegistryForeignInit /\ ServiceIdle
SpecRegistryForeign == RegistryForeignSpecInit /\ [][RegistryNext]_vars

(***************************************************************************)
(* The inline grammar, read off the text position by position (not by the  *)
(* patterns of the parser).                                                *)
(***************************************************************************)
Positions(s, S) == {i \in 1..Len(s) : s[i] \in S}
Nth(S, k) == CHOOSE x \in S : Cardinality({y \in S : y < x}) = k - 1
NextOf(s, i, S) == Min({j \in (i + 1)..Len(s) : s[j] \in S})

\* prose, containers of invoke blocks, invoke blocks of parameter blocks: every
\* tag closes what was opened last
RECURSIVE Nests(_, _, _)
Nests(s, i, mode) ==
    IF i > Len(s) THEN mode = "prose"
    ELSE CASE mode = "prose" ->
                IF s[i] = FO THEN Nests(s, i + 1, "container")
                ELSE s[i] \notin Tags /\ Nests(s, i + 1, "prose")
           [] mode = "container" ->
                IF s[i] = FC THEN Nests(s, i + 1, "prose")
                ELSE IF s[i] \in InvokeOpens THEN Nests(s, i + 1, "invoke")
                ELSE s[i] \notin Tags /\ Nests(s, i + 1, "container")
           [] mode = "invoke" ->
                IF s[i] = IC THEN Nests(s, i + 1, "container")
                ELSE IF s[i] \in ParamOpens THEN Nests(s, i + 1, "parameter")
                ELSE s[i] \notin Tags /\ Nests(s, i + 1, "invoke")
           [] mode = "parameter" ->
                IF s[i] = PC THEN Nests(s, i + 1, "invoke")
                ELSE s[i] \notin Tags /\ Nests(s, i + 1, "parameter")

WellFormedDoc(s) == Nests(s, 1, "prose")

\* white space stripped from both ends, one token at a time
RECURSIVE StripLeft(_), StripRight(_)
StripLeft(s) == IF s # << >> /\ Head(s) \in WS THEN StripLeft(Tail(s)) ELSE s
StripRight(s) ==
    IF s # << >> /\ s[Len(s)] \in WS THEN StripRight(SubSeq(s, 1, Len(s) - 1)) ELSE s
Stripped(s) == StripRight(StripLeft(s))

Structural == InvokeOpens \cup {IC, FO, FC}

\* an invoke opening tag followed, before any other invoke or container tag, by </invoke>
ClosedInvokes(s) ==
    {o \in Positions(s, InvokeOpens) :
        /\ Positions(s, Structural) \cap (o + 1)..Len(s) # {}
        /\ s[NextOf(s, o, Structural)] = IC}

\* an invoke opening tag that is not closed before the next invoke or container tag
UnclosedInvokes(s) == Positions(s, InvokeOpens) \ ClosedInvokes(s)

\* one container, all invoke tags inside it, one of them unclosed next to a
\* complete one
MalformedAmongValid(s) ==
    /\ Cardinality(Positions(s, {FO})) = 1
    /\ Cardinality(Positions(s, {FC})) = 1
    /\ \A i \in Positions(s, InvokeOpens \cup {IC}) :
          /\ Min(Positions(s, {FO})) < i
          /\ i < Min(Positions(s, {FC}))
    /\ UnclosedInvokes(s) # {}
    /\ ClosedInvokes(s) # {}

Returned == result.val

(***************************************************************************)
(* C1: a malformed invoke block next to valid ones is reported (a          *)
(* non-empty errors entry, success = false) and every valid sibling is     *)
(* still returned with its own name and raw text.                          *)
(***************************************************************************)
C1_MalformedReported ==
    (pc = "parsed" /\ MalformedAmongValid(text)) =>
        /\ Returned.errors # << >>
        /\ Returned.success = FALSE
        /\ \A o \in ClosedInvokes(text) :
              \E k \in 1..Len(Returned.toolCalls) :
                 /\ Returned.toolCalls[k].toolName = NameOf("invoke", text[o])
                 /\ Returned.toolCalls[k].rawXml = SubSeq(text, o, NextOf(text, o, {IC}))

(***************************************************************************)
(* C2: for a well-formed text the tool calls are exactly the invoke blocks *)
(* of the text, in document order (container order first, then the order   *)
(* inside each container).                                                 *)
(***************************************************************************)
C2_DocumentOrder ==
    (pc = "parsed" /\ WellFormedDoc(text)) =>
        /\ Len(Returned.toolCalls) = Cardinality(Positions(text, InvokeOpens))
        /\ \A k \in 1..Cardinality(Positions(text, InvokeOpens)) :
              /\ Returned.toolCalls[k].toolName =
                    NameOf("invoke", text[Nth(Positions(text, InvokeOpens), k)])
              /\ Returned.toolCalls[k].rawXml =
                    SubSeq(text, Nth(Positions(text, InvokeOpens), k),
                           NextOf(text, Nth(Positions(text, InvokeOpens), k), {IC}))

\* a parsed well-formed text with two containers and an invoke block in each
C2_Witness ==
    /\ pc = "parsed"
    /\ WellFormedDoc(text)
    /\ Cardinality(Positions(text, {FO})) = 2
    /\ Cardinality(Positions(text, InvokeOpens)) = 2
    /\ Len(Returned.toolCalls) = 2

(***************************************************************************)
(* C5: prose, one well-formed container with one invoke block, prose: one  *)
(* tool call named after the invoke block, success, no errors, and the     *)
(* remaining text is the text without the container, trimmed.              *)
(***************************************************************************)
SingleInvokeDoc(s) ==
    /\ WellFormedDoc(s)
    /\ Cardinality(Positions(s, {FO})) = 1
    /\ Cardinality(Positions(s, InvokeOpens)) = 1

C5_SingleInvoke ==
    (pc = "parsed" /\ SingleInvokeDoc(text)) =>
        /\ Len(Returned.toolCalls) = 1
        /\ Returned.toolCalls[1].toolName =
              NameOf("invoke", text[Min(Positions(text, InvokeOpens))])
        /\ Returned.toolCalls[1].functionName = Returned.toolCalls[1].toolName
        /\ Returned.success = TRUE
        /\ Returned.errors = << >>
        /\ Returned.remainingText =
              Stripped(SubSeq(text, 1, Min(Positions(text, {FO})) - 1)
                       \o SubSeq(text, Min(Positions(text, {FC})) + 1, Len(text)))

\* parsed: prose and white space on both sides of the one container
C5_Witness ==
    /\ pc = "parsed"
    /\ SingleInvokeDoc(text)
    /\ text[1] \in WS
    /\ text[Len(text)] = "x"
    /\ Min(Positions(text, {FO})) > 2
    /\ Len(Returned.toolCalls) = 1

(***************************************************************************)
(* C6: without a complete function_calls container the result is           *)
(* success = true, no tool calls, no errors, and the remaining text is the *)
(* input itself, untrimmed, also with invoke blocks outside a container.   *)
(***************************************************************************)
NoCompleteContainer(s) ==
    ~ \E i \in 1..Len(s), j \in 1..Len(s) : i < j /\ s[i] = FO /\ s[j] = FC

C6_NoContainer ==
    (pc = "parsed" /\ NoCompleteContainer(text)) =>
        /\ Returned.success = TRUE
        /\ Returned.toolCalls = << >>
        /\ Returned.errors = << >>
        /\ Returned.remainingText = text

\* parsed: no container tag at all, white space at the start, a complete invoke block
C6_Witness ==
    /\ pc = "parsed"
    /\ NoCompleteContainer(text)
    /\ Positions(text, {FO, FC}) = {}
    /\ text # << >> /\ text[1] \in WS
    /\ ClosedInvokes(text) # {}
    /\ Returned.toolCalls = << >>

(***************************************************************************)
(* C7: parseToolCalls never throws, and in every returned outcome success  *)
(* is false exactly when errors is non-empty.                              *)
(***************************************************************************)
C7_NeverThrows ==
    pc = "parsed" =>
        /\ result.threw = FALSE
        /\ (Returned.success = FALSE) <=> (Returned.errors # << >>)

\* parsed: a container that holds an unclosed invoke opening tag and no complete
\* invoke block
C7_Witness ==
    /\ pc = "parsed"
    /\ \E o \in UnclosedInvokes(text) :
          /\ \E i \in 1..(o - 1) : text[i] = FO
          /\ \E j \in (o + 1)..Len(text) : text[j] = FC
    /\ ClosedInvokes(text) = {}
    /\ result.threw = FALSE

(***************************************************************************)
(* C8: the parser is a pure function of its input: calls on equal text     *)
(* return equal results whatever ran before, and no lastIndex is carried   *)
(* from one call to the next.                                              *)
(***************************************************************************)
C8_Pure ==
    /\ lastIndex = FreshLastIndex
    /\ \A i \in 1..Len(calls), j \in 1..Len(calls) :
          (calls[i].op = calls[j].op /\ calls[i].text = calls[j].text)
              => calls[i].ret = calls[j].ret

\* the same parse, with tool calls in it, before and after a call on another text
C8_Witness ==
    /\ Len(calls) >= 3
    /\ calls[1].op = "parseToolCalls"
    /\ calls[3].op = "parseToolCalls"
    /\ calls[1].text = calls[3].text
    /\ calls[2].text # calls[1].text
    /\ calls[1].ret.val.toolCalls # << >>

(***************************************************************************)
(* C3: a parameter value is trimmed and coerced in the order JSON,         *)
(* boolean, number, string; only a finite numeric literal becomes a        *)
(* number, any other text stays the trimmed string.                        *)
(***************************************************************************)
IsBooleanWord(v) == ToLowerCase(v) \in {Chars("true"), Chars("false")}
IsNumericLiteral(v) == v # << >> /\ ToNumber(v).kind = "finite"

C3_CoercionOrder ==
    cpc = "done" =>
        /\ JSONParse(Trim(raw)).ok => coerced = JSONParse(Trim(raw)).val
        /\ (~JSONParse(Trim(raw)).ok /\ IsBooleanWord(Trim(raw)))
              => coerced = JSBool(ToLowerCase(Trim(raw)) = Chars("true"))
        /\ (~JSONParse(Trim(raw)).ok /\ ~IsBooleanWord(Trim(raw))
                /\ IsNumericLiteral(Trim(raw)))
              => coerced = ToNumber(Trim(raw)).val
        /\ (~JSONParse(Trim(raw)).ok /\ ~IsBooleanWord(Trim(raw))
                /\ ~IsNumericLiteral(Trim(raw)))
              => coerced = JSString(Trim(raw))

(***************************************************************************)
(* C4: an empty or all-white-space parameter value is coerced to the empty *)
(* string, not to a number, a boolean or null.                             *)
(***************************************************************************)
C4_EmptyIsEmptyString ==
    (cpc = "done" /\ \A i \in 1..Len(raw) : raw[i] \in WS) => coerced = JSString(<< >>)

(***************************************************************************)
(* C9: after registerTool(toolClass, functionNames) with a non-empty list  *)
(* the schemas of the kind are exactly the capabilities the class declares *)
(* whose function name is listed; without a list, exactly the capabilities *)
(* the class declares.                                                     *)
(***************************************************************************)
RegisteredNormally == regLast.op = "registerTool" /\ ~regLast.threw
DeclaredKeys(kind) == {classBody[kind][n].key : n \in 1..Len(classBody[kind])}
ListedKeys(filter) == {filter.names[n] : n \in 1..Len(filter.names)}
Filtering(filter) == filter.given /\ Len(filter.names) > 0
Entries(obj) == {obj[n] : n \in 1..Len(obj)}

C9_ExactlyDeclaredAndListed ==
    RegisteredNormally =>
        /\ getToolSchemas(regLast.kind).found
        /\ {e.key : e \in Entries(getToolSchemas(regLast.kind).schemas)} =
              IF Filtering(regLast.filter)
              THEN DeclaredKeys(regLast.kind) \cap ListedKeys(regLast.filter)
              ELSE DeclaredKeys(regLast.kind)
        /\ \A e \in Entries(getToolSchemas(regLast.kind).schemas) :
              e.val.by = regLast.kind

(***************************************************************************)
(* C10: a tool kind has at most one registration; right after a kind is    *)
(* registered again, getToolNames lists it once and getTool,               *)
(* getToolSchemas and getAllTools give the instance and the filtered       *)
(* schemas of that last call.                                              *)
(***************************************************************************)
C10_LastWriteWins ==
    /\ \A i \in 1..Len(getToolNames), j \in 1..Len(getToolNames) :
          getToolNames[i] = getToolNames[j] => i = j
    /\ (regLast.op = "registerTool" /\ regLast.kind \in ToolKinds /\ regLast.args = "ok")
          => ~regLast.threw
    /\ RegisteredNormally =>
          /\ \E n \in 1..Len(getToolNames) : getToolNames[n] = regLast.kind
          /\ getTool(regLast.kind) = regLast.instance
          /\ \A e \in Entries(getAllTools) :
                e.key = regLast.kind => e.val = regLast.instance
          /\ \E e \in Entries(getAllTools) : e.key = regLast.kind
          /\ getToolSchemas(regLast.kind).found
          /\ getToolSchemas(regLast.kind).schemas =
                Deref(FilteredSchemas(regLast.kind, regLast.filter))
          /\ \A e \in Entries(getToolSchemas(regLast.kind).schemas) :
                Filtering(regLast.filter) => e.key \in ListedKeys(regLast.filter)

\* a kind was just registered for the second time, this time with a filter that
\* retains something
C10_Witness ==
    /\ RegisteredNormally
    /\ regCount[regLast.kind] = 2
    /\ Filtering(regLast.filter)
    /\ getToolSchemas(regLast.kind).schemas # << >>
    /\ Len(toolSchemas) > Len(getToolSchemas(regLast.kind).schemas)
    /\ getTool(regLast.kind) = regLast.instance

(***************************************************************************)
(* C11: when exactly one registered tool retains an inline capability with *)
(* tag t, getXMLTool(t) is that tool's registered instance (what getTool   *)
(* gives for its kind); when no registered tool retains one, getXMLTool(t) *)
(* is null.                                                                *)
(***************************************************************************)
XMLTagNames == {"t", "f"}
RegisteredKinds == {k \in ToolKinds : hasTool(k)}
RetainsTag(k, t) ==
    \E e \in Entries(getToolSchemas(k).schemas) : e.val.type = "xml" /\ e.val.name = t
RetainingTag(t) == {k \in RegisteredKinds : RetainsTag(k, t)}

C11_TagResolves ==
    \A t \in XMLTagNames :
        /\ RetainingTag(t) = {} => getXMLTool(t) = 0
        /\ \A k \in RetainingTag(t) :
              RetainingTag(t) = {k} => getXMLTool(t) = getTool(k)

(***************************************************************************)
(* C12: after clear(), whatever was registered before, every lookup is     *)
(* empty, and clear() on a cleared registry changes nothing.               *)
(***************************************************************************)
C12_ClearEmptiesAll ==
    regLast.op = "clear" =>
        /\ \A k \in ToolClasses :
              /\ getTool(k) = 0
              /\ ~getToolSchemas(k).found
              /\ ~hasTool(k)
        /\ \A t \in XMLTagNames : getXMLTool(t) = 0
        /\ getToolNames = << >>
        /\ getAllTools = << >>
        /\ getOpenAPISchemas = << >>
        /\ getXMLExamples = << >>
        /\ clear([tools |-> tools, xmlTools |-> xmlTools]) =
              [tools |-> tools, xmlTools |-> xmlTools]

\* clear() was called twice in a row after two kinds were registered, one of them
\* twice, while the classes declare an inline capability
C12_Witness ==
    /\ regLast.op = "clear"
    /\ regLast.repeated
    /\ \A k \in DOMAIN classBody : regCount[k] > 0
    /\ \E k \in DOMAIN classBody : regCount[k] = 2
    /\ HasType(toolSchemas, "xml")
    /\ getToolNames = << >>

(***************************************************************************)
(* C13: if the tool constructor throws, or the tool class has no           *)
(* getSchemas, registerTool throws to its caller and does not return       *)
(* normally.                                                               *)
(***************************************************************************)
C13_FailurePropagates ==
    (regLast.op = "registerTool" /\ (regLast.args = "bad" \/ regLast.kind = NotATool))
        => regLast.threw

\* a class without getSchemas was handed to a registry that holds a tool; its
\* constructor returned and the call threw
C13_Witness ==
    /\ regLast.op = "registerTool"
    /\ regLast.kind = NotATool
    /\ regLast.args = "ok"
    /\ regLast.threw
    /\ tools # << >>

(***************************************************************************)
(* C14: the capability map of a tool type holds exactly the capabilities   *)
(* declared on that tool type's own methods: nothing declared on another   *)
(* tool type, and nothing at all for a type that declares none; the same   *)
(* for getToolSchemas after an unfiltered registerTool.                    *)
(***************************************************************************)
OwnCapabilitiesOnly(kind, schemas) ==
    /\ {e.key : e \in Entries(schemas)} = DeclaredKeys(kind)
    /\ \A e \in Entries(schemas) : e.val.by = kind

C14_PerTypeCapabilityMap ==
    /\ \A k \in loaded : OwnCapabilitiesOnly(k, getSchemas(k))
    /\ (RegisteredNormally /\ ~Filtering(regLast.filter))
          => OwnCapabilitiesOnly(regLast.kind, getToolSchemas(regLast.kind).schemas)

(***************************************************************************)
(* C15: a method declared under both dialects yields a structured and an   *)
(* inline entry: once its tool is registered (unfiltered) the capability   *)
(* is in getOpenAPISchemas, resolves by its tag through getXMLTool and is  *)
(* listed in getXMLExamples.                                               *)
(***************************************************************************)
DualMethods(kind) ==
    {m \in DeclaredKeys(kind) :
        \A ty \in {"openapi", "xml"} :
            \E n \in 1..Len(classBody[kind]) :
                classBody[kind][n].key = m /\ classBody[kind][n].type = ty}
TagOf(kind, m) ==
    (CHOOSE d \in Entries(classBody[kind]) : d.key = m /\ d.type = "xml").name

C15_BothDialects ==
    (RegisteredNormally /\ ~Filtering(regLast.filter)) =>
        \A m \in DualMethods(regLast.kind) :
            /\ ObjHas(getOpenAPISchemas, OpenAPIKey(regLast.kind, m))
            /\ getXMLTool(TagOf(regLast.kind, m)) # 0
            /\ ObjHas(getXMLExamples, TagOf(regLast.kind, m))

(***************************************************************************)
(* C16: getOpenAPISchemas holds exactly the structured capabilities        *)
(* retained by the registered tools, keyed by function name; no inline     *)
(* capability and nothing removed by a filter appears; where two kinds     *)
(* retain the same function name the entry of the later registration is    *)
(* the one returned.                                                       *)
(***************************************************************************)
RetainsStructured(k, fn) ==
    \E e \in Entries(getToolSchemas(k).schemas) : e.key = fn /\ e.val.type = "openapi"
RetainingStructured(fn) == {k \in RegisteredKinds : RetainsStructured(k, fn)}
\* instances are numbered in the order of the registerTool calls
LatestOf(ks) == CHOOSE k \in ks : \A j \in ks : getTool(j) <= getTool(k)

C16_StructuredFlattened ==
    /\ {x.key : x \in Entries(getOpenAPISchemas)} =
          {fn \in {e.key : e \in Entries(toolSchemas)} : RetainingStructured(fn) # {}}
    /\ \A x \in Entries(getOpenAPISchemas) :
          /\ x.val.type = "openapi"
          /\ RetainingStructured(x.key) # {}
          /\ x.val = ObjGet(getToolSchemas(LatestOf(RetainingStructured(x.key))).schemas,
                            x.key)

(***************************************************************************)
(* C17: getStats gives totalTools = number of registered kinds,            *)
(* totalFunctions = sum of the retained capabilities of the registrations, *)
(* xmlTools / openApiTools = number of registrations with a retained       *)
(* inline / structured capability (a tool with both counts in both), and   *)
(* all four are 0 after clear.                                             *)
(***************************************************************************)
RetainedCount(k) == Cardinality({e.key : e \in Entries(getToolSchemas(k).schemas)})
RECURSIVE SumRetained(_)
SumRetained(ks) ==
    IF ks = {} THEN 0
    ELSE LET k == CHOOSE x \in ks : TRUE
         IN RetainedCount(k) + SumRetained(ks \ {k})
RetainsDialect(k, ty) == \E e \in Entries(getToolSchemas(k).schemas) : e.val.type = ty

C17_Stats ==
    /\ getStats.totalTools = Cardinality(RegisteredKinds)
    /\ getStats.totalFunctions = SumRetained(RegisteredKinds)
    /\ getStats.xmlTools = Cardinality({k \in RegisteredKinds : RetainsDialect(k, "xml")})
    /\ getStats.openApiTools =
          Cardinality({k \in RegisteredKinds : RetainsDialect(k, "openapi")})
    /\ regLast.op = "clear" =>
          getStats = [totalTools |-> 0, totalFunctions |-> 0, xmlTools |-> 0,
                      openApiTools |-> 0]

\* two registered kinds, one of them retaining capabilities of both dialects and
\* the other none of the inline dialect
C17_Witness ==
    /\ getStats.totalTools = 2
    /\ getStats.xmlTools = 1
    /\ getStats.openApiTools >= 1
    /\ getStats.totalFunctions >= 2
    /\ \E k \in RegisteredKinds : RetainsDialect(k, "xml") /\ RetainsDialect(k, "openapi")

(***************************************************************************)
(* C18: extractToolNames returns each distinct invoke-block name exactly   *)
(* once, in the order of first occurrence, for invoke blocks anywhere in   *)
(* the text, inside a function_calls container or not.  (Stated for texts  *)
(* in which every invoke opening tag is closed before the next one.)       *)
(***************************************************************************)
InvokeTags == InvokeOpens \cup {IC}
\* an invoke opening tag followed, before any other invoke tag, by </invoke>
InvokeBlocks(s) ==
    {o \in Positions(s, InvokeOpens) :
        /\ Positions(s, InvokeTags) \cap (o + 1)..Len(s) # {}
        /\ s[NextOf(s, o, InvokeTags)] = IC}
EveryInvokeClosed(s) == InvokeBlocks(s) = Positions(s, InvokeOpens)
BlockNames(s) == {NameOf("invoke", s[o]) : o \in InvokeBlocks(s)}
FirstBlockOf(s, n) == Min({o \in InvokeBlocks(s) : NameOf("invoke", s[o]) = n})

IsMapping(v) == v.type = "object"

C19_ValidIffComplete ==
    outcome.op = "validateToolCall" =>
        (outcome.ret <=>
            /\ outcome.args.toolName # ""
            /\ outcome.args.functionName # ""
            /\ IsMapping(outcome.args.parameters)
            /\ outcome.args.rawXml # "")

(***************************************************************************)
(* C20: an envelope built by Tool.success has success = true, carries      *)
(* output and no error; one built by Tool.error has success = false,       *)
(* carries error and no output.                                            *)
(***************************************************************************)
C20_Envelope ==
    /\ outcome.op = "success" =>
          /\ ObjGet(outcome.ret, "success") = JSBool(TRUE)
          /\ ObjHas(outcome.ret, "output")
          /\ ObjGet(outcome.ret, "output") = outcome.args.output
          /\ ~ObjHas(outcome.ret, "error")
    /\ outcome.op = "error" =>
          /\ ObjGet(outcome.ret, "success") = JSBool(FALSE)
          /\ ObjHas(outcome.ret, "error")
          /\ ObjGet(outcome.ret, "error") = outcome.args.message
          /\ ~ObjHas(outcome.ret, "output")

\* Tool.error was called with a message and metadata
C20_Witness ==
    /\ outcome.op = "error"
    /\ outcome.args.message = JSString(<<"h", "e", "l", "l", "o">>)
    /\ outcome.args.metadata # JSUndefined
    /\ ObjGet(outcome.ret, "error") = payload

(***************************************************************************)
(* C21: when two different registered tools both retain an inline          *)
(* capability with tag t, getXMLTool(t) is the instance of the kind that   *)
(* was registered first; re-registering that kind does not move it behind  *)
(* the other.                                                              *)
(***************************************************************************)
\* position of a registered kind in registration order (a re-registration keeps it)
RegistrationRank(k) == CHOOSE n \in 1..Len(getToolNames) : getToolNames[n] = k
FirstRegistered(ks) ==
    CHOOSE k \in ks : \A j \in ks : RegistrationRank(k) <= RegistrationRank(j)

C21_FirstRegisteredWins ==
    \A t \in XMLTagNames :
        Cardinality(RetainingTag(t)) >= 2 =>
            getXMLTool(t) = getTool(FirstRegistered(RetainingTag(t)))

(***************************************************************************)
(* C24: the inline index agrees with the main table: every kind indexed in *)
(* xmlTools is registered, its entry is the registration that getTool and  *)
(* getToolSchemas return, and it retains an inline capability; getXMLTool  *)
(* never returns an instance that getTool does not return.                 *)
(***************************************************************************)
RetainsInline(k) ==
    \E e \in Entries(getToolSchemas(k).schemas) : e.val.type = "xml"

C24_InlineIndexAgrees ==
    /\ \A x \in Entries(xmlTools) :
          /\ hasTool(x.key)
          /\ x.val.instance = getTool(x.key)
          /\ Deref(x.val.schemas) = getToolSchemas(x.key).schemas
          /\ RetainsInline(x.key)
    /\ \A t \in XMLTagNames :
          getXMLTool(t) # 0 => \E k \in RegisteredKinds : getXMLTool(t) = getTool(k)

(***************************************************************************)
(* C26: every key t of getXMLExamples() resolves through getXMLTool(t),    *)
(* and the example stored under t is the example of an inline capability   *)
(* with tag t of the very instance that getXMLTool(t) returns.             *)
(***************************************************************************)
\* the examples of the inline capabilities with tag t of the indexed instance i
InlineExamplesOf(i, t) ==
    {e.val.example :
        e \in {f \in UNION {Entries(Deref(x.val.schemas)) :
                               x \in {y \in Entries(xmlTools) : y.val.instance = i}} :
                  f.val.type = "xml" /\ f.val.name = t}}

C26_ExamplesResolve ==
    \A x \in Entries(getXMLExamples) :
        /\ getXMLTool(x.key) # 0
        /\ x.val \in InlineExamplesOf(getXMLTool(x.key), x.key)

(***************************************************************************)
(* C25: if registerTool throws, the registry is exactly as before the      *)
(* call: both maps, and with them every lookup, are unchanged, also for a  *)
(* tool of the same kind that was registered successfully earlier.         *)
(* (Every lookup is a function of tools, xmlTools and Tool._schemas, and   *)
(* registerTool does not write Tool._schemas.)                             *)
(***************************************************************************)
FailedCall == regLast.op = "registerTool" /\ regLast.threw

C25_FailureLeavesRegistry ==
    FailedCall => /\ tools = regLast.before.tools
                  /\ xmlTools = regLast.before.xmlTools
                  /\ \A k \in ToolClasses \cup {SchemalessTool} :
                        getTool(k) = IF ObjHas(regLast.before.tools, k)
                                     THEN ObjGet(regLast.before.tools, k).instance
                                     ELSE 0
                  /\ getToolNames = ObjKeys(regLast.before.tools)

(***************************************************************************)
(* C27: for every text, the toolName of each invocation that               *)
(* parseToolCalls(text) returns also appears in extractToolNames(text).    *)
(***************************************************************************)
CallsOf(op) == {c \in Entries(calls) : c.op = op}
NamesParsed(c) == {c.ret.val.toolCalls[n].toolName : n \in 1..Len(c.ret.val.toolCalls)}

C27_ParsedNamesExtracted ==
    \A c \in CallsOf("parseToolCalls"), d \in CallsOf("extractToolNames") :
        c.text = d.text => NamesParsed(c) \subseteq Entries(d.ret.val)

(***************************************************************************)
(* C28: every invocation that parseToolCalls returns satisfies             *)
(* validateToolCall: its toolName is non-empty and equals functionName,    *)
(* its parameters are a mapping from names to values, and its rawXml is    *)
(* the matched invoke block, non-empty and a substring of the input text.  *)
(***************************************************************************)
IsParameterMap(ps) ==
    /\ \A n \in 1..Len(ps) : ps[n].key \in ParamNames /\ DOMAIN ps[n].val = {"type", "repr"}
    /\ \A m, n \in 1..Len(ps) : ps[m].key = ps[n].key => m = n

IsSubstring(part, whole) ==
    \E i \in 1..(Len(whole) - Len(part) + 1) :
        SubSeq(whole, i, i + Len(part) - 1) = part

\* the invocation as validateToolCall reads it
AsRead(call) ==
    [toolName |-> call.toolName, functionName |-> call.functionName,
     parameters |-> IF IsParameterMap(call.parameters)
                    THEN JSObject(<<"{", "}">>) ELSE JSUndefined,
     rawXml |-> IF call.rawXml = << >> THEN "" ELSE "<invoke>"]

C28_ReturnedCallsValid ==
    pc = "parsed" =>
        \A n \in 1..Len(Returned.toolCalls) :
            LET Valid(call) ==
                    /\ validateToolCall(AsRead(call))
                    /\ call.toolName = call.functionName
                    /\ call.rawXml[1] = InvokeOpenTag(call.toolName)
                    /\ call.rawXml[Len(call.rawXml)] = IC
                    /\ IsSubstring(call.rawXml, text)
            IN Valid(Returned.toolCalls[n])

\* parsed: two invocations returned, one with a parameter and one with no content
C28_Witness ==
    /\ pc = "parsed"
    /\ \E m, n \in 1..Len(Returned.toolCalls) :
          /\ Returned.toolCalls[m].parameters # << >>
          /\ Len(Returned.toolCalls[n].rawXml) = 2

(***************************************************************************)
(* C30: when an invoke block holds several parameter blocks of one name,   *)
(* the invocation has a single entry for that name, holding the coerced    *)
(* value of the last such block in document order; the entries of other    *)
(* names are unaffected.                                                   *)
(***************************************************************************)
\* the parameter blocks named n of a content made of parameter blocks
BlocksNamed(content, n) == {i \in 1..Len(content) : content[i] = ParamOpenTag(n)}
BlockValue(content, i) ==
    SubSeq(content, i + 1, Min({j \in (i + 1)..Len(content) : content[j] = PC}) - 1)
EntriesNamed(ps, n) == {k \in 1..Len(ps) : ps[k].key = n}

C30_LastBlockWins ==
    pc = "built" =>
        \A n \in ParamNames :
            IF BlocksNamed(text, n) = {}
            THEN EntriesNamed(result.val.parameters, n) = {}
            ELSE /\ Cardinality(EntriesNamed(result.val.parameters, n)) = 1
                 /\ ObjGet(result.val.parameters, n) =
                       parseParameterValue(Trim(BlockValue(text, Max(BlocksNamed(text, n)))))

\* built: two blocks of one name with different values around a block of the other
C30_Witness ==
    /\ pc = "built"
    /\ \E n \in ParamNames : \E m \in ParamNames \ {n} :
          /\ Cardinality(BlocksNamed(text, n)) = 2
          /\ \E i \in BlocksNamed(text, m) :
                Min(BlocksNamed(text, n)) < i /\ i < Max(BlocksNamed(text, n))
          /\ BlockValue(text, Min(BlocksNamed(text, n))) #
                BlockValue(text, Max(BlocksNamed(text, n)))
          /\ ObjHas(result.val.parameters, m)

(***************************************************************************)
(* C22: validateParameters(method, parameters) returns true when the       *)
(* method has no schema or an inline schema; for a structured schema it    *)
(* throws when some name of the schema's required list (empty if missing)  *)
(* is not a key of parameters and returns true otherwise.                  *)
(***************************************************************************)
SchemaOf(m) == ObjGet(DeclaredSchemas, m)
IsStructured(m) == ObjHas(DeclaredSchemas, m) /\ SchemaOf(m).type = "openapi"
RequiredOf(m) == Entries(SchemaOf(m).schema.required.names)
KeysOf(parameters) == parameters.keys

C22_RequiredChecked ==
    outcome.op = "validateParameters" =>
        LET Settled(m, parameters, out) ==
                IF IsStructured(m) /\ ~(RequiredOf(m) \subseteq KeysOf(parameters))
                THEN out.threw
                ELSE ~out.threw /\ out.ret = TRUE
        IN Settled(outcome.args.methodName, outcome.args.parameters, outcome.ret)

(***************************************************************************)
(* C23: POST /agent/run admits at most one running agent run per project:  *)
(* a request answered 409 inserts no row, and in every interleaving of     *)
(* concurrent requests at most one row of agent_runs with status 'running' *)
(* belongs to a thread of the project.                                     *)
(***************************************************************************)
RunningIn(p) ==
    {row \in agentRuns : ProjectOf[row.thread_id] = p /\ row.status = "running"}

C23_OneRunningPerProject ==
    /\ \A p \in Projects : Cardinality(RunningIn(p)) <= 1
    /\ \A r \in 1..MaxRequests :
          requests[r].status = 409 => ~\E row \in agentRuns : row.id = r

(***************************************************************************)
(* C29: with the environment set, after any sequence of getInstance,       *)
(* initialize, getClient, close and reset calls, getClient on any          *)
(* DBConnection object returns a client and never throws: initialized is   *)
(* never true while an object in use has no client.                        *)
(***************************************************************************)
C29_GetClientNeverThrows ==
    /\ dbLast.op = "getClient" => ~dbLast.threw
    /\ \A h \in 1..dbHandles : ~getClient(DB, h).threw

====
